---- MODULE Spec2Model ----
(***************************************************************************)
(* Biodesign-Metadata-Exchange: the metadata library (checksum, reversible *)
(* patches, changelog, revision reconstruction, encrypted tokens), the     *)
(* design tool that calls it, and the synthesis provider's endpoints.      *)
(*                                                                         *)
(* Text (a design, a GenBank string, a patch) is a sequence of one-letter  *)
(* strings.  A directory is the function from its files' names to their   *)
(* text.                                                                   *)
(***************************************************************************)
EXTENDS Integers, Sequences, FiniteSets, TLC

\* ------------------------------------------------------------------ bounds
\* Longest text the pure-function specification draws.
MaxLen == 3
\* Library calls (create_metadata / update_metadata_with_operation) in a run.
MaxCalls == 3

MaxCommands == 3

MaxRequests == 2

MaxTokens == 2

MaxIndex == 2

\* ------------------------------------------------------------------ text
Alphabet == {"a", "t", "A"}

Min(a, b) == IF a < b THEN a ELSE b

Max(a, b) == IF a < b THEN b ELSE a

\* Python's s[i:j] for 0 <= i, j (0-based, j exclusive, clipped to the text).
Slice(s, i, j) == SubSeq(s, Min(i, Len(s)) + 1, Min(j, Len(s)))

TextsUpTo(n) == UNION {[1..k -> Alphabet] : k \in 0..n}

\* str.lower() on one letter.
LowerChar(c) ==
    CASE c = "A" -> "a"
      [] c = "T" -> "t"
      [] c = "G" -> "g"
      [] c = "C" -> "c"
      [] c = "R" -> "r"  [] c = "N" -> "n"  [] c = "D" -> "d"  [] c = "E" -> "e"
      [] c = "Q" -> "q"  [] c = "H" -> "h"  [] c = "I" -> "i"  [] c = "L" -> "l"
      [] c = "K" -> "k"  [] c = "M" -> "m"  [] c = "F" -> "f"  [] c = "P" -> "p"
      [] c = "S" -> "s"  [] c = "W" -> "w"  [] c = "Y" -> "y"  [] c = "V" -> "v"
      [] OTHER -> c

lower(s) == [i \in 1..Len(s) |-> LowerChar(s[i])]

\* hashlib.sha256(...).hexdigest(): a digest that names the bytes it was
\* computed from (collision-free, as section 8.2 of the spec assumes).
sha256(bytes) == <<"sha256", bytes>>

calculate_checksum_case_sensitive(input) == sha256(input)

calculate_checksum(input) == sha256(lower(input))

\* ------------------------------------------------- diff_match_patch (dmp)
\* The library the repository calls for patches.  Modelled: diff_main's
\* common-prefix / common-suffix trimming and the first cases of
\* diff_compute, patch_make's context of Patch_Margin letters, the text form
\* of a patch, and patch_apply's exact matching at the expected location
\* (or at the nearest exact occurrence).  The bitap fuzzy match is not
\* modelled: a pattern that occurs nowhere exactly is reported as not found.
Patch_Margin == 4

DIFF_EQUAL == "="

DIFF_DELETE == "-"

DIFF_INSERT == "+"

diff_commonPrefix(text1, text2) ==
    LET n == Min(Len(text1), Len(text2))
        S == {k \in 0..n : SubSeq(text1, 1, k) = SubSeq(text2, 1, k)}
    IN  CHOOSE k \in S : \A j \in S : j <= k

diff_commonSuffix(text1, text2) ==
    LET n == Min(Len(text1), Len(text2))
        S == {k \in 0..n : SubSeq(text1, Len(text1) - k + 1, Len(text1))
                           = SubSeq(text2, Len(text2) - k + 1, Len(text2))}
    IN  CHOOSE k \in S : \A j \in S : j <= k

\* First index (0-based) at which short occurs in long, or -1.
Find(long, short) ==
    LET S == {i \in 0..(Len(long) - Len(short)) :
                 Slice(long, i, i + Len(short)) = short}
    IN  IF S = {} THEN -1 ELSE CHOOSE i \in S : \A j \in S : i <= j

NonEmptyDiffs(diffs) == SelectSeq(diffs, LAMBDA d : d[2] # <<>>)

\* diff_compute on texts that share no prefix and no suffix.
diff_compute_inside(op, longtext, shorttext, i) ==
    IF i # -1
    THEN NonEmptyDiffs(<<
            <<op, Slice(longtext, 0, i)>>,
            <<DIFF_EQUAL, shorttext>>,
            <<op, Slice(longtext, i + Len(shorttext), Len(longtext))>> >>)
    ELSE IF op = DIFF_DELETE
         THEN << <<DIFF_DELETE, longtext>>, <<DIFF_INSERT, shorttext>> >>
         ELSE << <<DIFF_DELETE, shorttext>>, <<DIFF_INSERT, longtext>> >>

diff_compute(text1, text2) ==
    IF text1 = <<>> THEN <<<<DIFF_INSERT, text2>>>>
    ELSE IF text2 = <<>> THEN <<<<DIFF_DELETE, text1>>>>
    ELSE IF Len(text1) > Len(text2)
         THEN diff_compute_inside(DIFF_DELETE, text1, text2, Find(text1, text2))
         ELSE diff_compute_inside(DIFF_INSERT, text2, text1, Find(text2, text1))

diff_main_suffix(r1, r2, s) ==
    diff_compute(Slice(r1, 0, Len(r1) - s), Slice(r2, 0, Len(r2) - s))
    \o NonEmptyDiffs(<< <<DIFF_EQUAL, Slice(r1, Len(r1) - s, Len(r1))>> >>)

diff_main_prefix(text1, text2, p) ==
    NonEmptyDiffs(<< <<DIFF_EQUAL, Slice(text1, 0, p)>> >>)
    \o diff_main_suffix(Slice(text1, p, Len(text1)), Slice(text2, p, Len(text2)),
                        diff_commonSuffix(Slice(text1, p, Len(text1)),
                                          Slice(text2, p, Len(text2))))

\* diff_main(text1, text2): the edit script that turns text1 into text2:
\* the common prefix, the script of the middles, the common suffix.
diff_main(text1, text2) ==
    IF text1 = text2
    THEN NonEmptyDiffs(<< <<DIFF_EQUAL, text1>> >>)
    ELSE diff_main_prefix(text1, text2, diff_commonPrefix(text1, text2))

RECURSIVE Concat(_)
Concat(ss) == IF ss = <<>> THEN <<>> ELSE Head(ss) \o Concat(Tail(ss))

\* diff_text1 / diff_text2: the source and the destination text of a script.
diff_text1(diffs) ==
    Concat([i \in 1..Len(diffs) |->
              IF diffs[i][1] # DIFF_INSERT THEN diffs[i][2] ELSE <<>>])

diff_text2(diffs) ==
    Concat([i \in 1..Len(diffs) |->
              IF diffs[i][1] # DIFF_DELETE THEN diffs[i][2] ELSE <<>>])

patch_of(start, body) ==
    [start1 |-> start, start2 |-> start,
     length1 |-> Len(diff_text1(body)), length2 |-> Len(diff_text2(body)),
     diffs |-> body]

\* The patch of an edit script: its leading and trailing equalities cut to
\* Patch_Margin letters of context.
patch_of_diffs(diffs, lead, trail) ==
    patch_of(Max(0, Len(lead) - Patch_Margin),
             NonEmptyDiffs(<< <<DIFF_EQUAL,
                                Slice(lead, Max(0, Len(lead) - Patch_Margin), Len(lead))>> >>)
             \o SubSeq(diffs, IF lead = <<>> THEN 1 ELSE 2,
                              IF trail = <<>> THEN Len(diffs) ELSE Len(diffs) - 1)
             \o NonEmptyDiffs(<< <<DIFF_EQUAL, Slice(trail, 0, Patch_Margin)>> >>))

patch_make_diffs(diffs) ==
    << patch_of_diffs(diffs,
                      IF diffs[1][1] = DIFF_EQUAL THEN diffs[1][2] ELSE <<>>,
                      IF diffs[Len(diffs)][1] = DIFF_EQUAL
                      THEN diffs[Len(diffs)][2] ELSE <<>>) >>

\* patch_make(text1, text2): no patch for equal texts; otherwise one patch
\* (interior equalities shorter than 2 * Patch_Margin stay inside the
\* patch, which covers every text drawn here).
patch_make(text1, text2) ==
    IF text1 = text2 THEN <<>> ELSE patch_make_diffs(diff_main(text1, text2))

\* patch_toText: each patch as its "@@ -start1,length1 +start2,length2 @@"
\* header followed by one line per diff; no patch gives the empty text.
patch_toText(patches) ==
    [i \in 1..Len(patches) |->
        << <<"@@", patches[i].start1, patches[i].length1,
                   patches[i].start2, patches[i].length2>> >>
        \o patches[i].diffs]

\* patch_fromText: the patches a text of patch_toText's form stands for.
patch_fromText(textline) ==
    [i \in 1..Len(textline) |->
        [start1  |-> textline[i][1][2], length1 |-> textline[i][1][3],
         start2  |-> textline[i][1][4], length2 |-> textline[i][1][5],
         diffs   |-> Tail(textline[i])]]

\* match_main(text, pattern, loc): loc when the pattern is there, else the
\* exact occurrence nearest to loc, else -1.
match_main(text, pattern, loc0) ==
    LET loc == Max(0, Min(loc0, Len(text)))
        S   == {i \in 0..(Len(text) - Len(pattern)) :
                   Slice(text, i, i + Len(pattern)) = pattern}
        Dist(i) == IF i < loc THEN loc - i ELSE i - loc
    IN  IF text = pattern THEN 0
        ELSE IF text = <<>> THEN -1
        ELSE IF loc + Len(pattern) <= Len(text)
                /\ Slice(text, loc, loc + Len(pattern)) = pattern THEN loc
        ELSE IF S = {} THEN -1
        ELSE CHOOSE i \in S : \A j \in S :
                 Dist(i) < Dist(j) \/ (Dist(i) = Dist(j) /\ i <= j)

RECURSIVE patch_apply_from(_, _, _, _)
patch_apply_from(patches, text, delta, results) ==
    IF patches = <<>> THEN <<text, results>>
    ELSE LET patch        == Head(patches)
             expected_loc == patch.start2 + delta
             text1        == diff_text1(patch.diffs)
             start_loc    == match_main(text, text1, expected_loc)
         IN  IF start_loc = -1
             THEN patch_apply_from(Tail(patches), text,
                                   delta - (patch.length2 - patch.length1),
                                   Append(results, FALSE))
             ELSE patch_apply_from(Tail(patches),
                                   Slice(text, 0, start_loc)
                                   \o diff_text2(patch.diffs)
                                   \o Slice(text, start_loc + Len(text1), Len(text)),
                                   start_loc - expected_loc,
                                   Append(results, TRUE))

\* patch_apply(patches, text) -> <<new text, one success flag per patch>>.
patch_apply(patches, text) == patch_apply_from(patches, text, 0, <<>>)

\* --------------------------------------------- BioDesignMetadataLibrary
\* compute_difference with its arguments handed to patch_make in the order
\* its parameter names suggest (old -> new).
compute_difference_forward(original_string, new_string) ==
    patch_toText(patch_make(original_string, new_string))

\* compute_difference(original, new): the patch text that turns new into
\* original (patch_make is called with (new_string, original_string)).
compute_difference(original_string, new_string) ==
    patch_toText(patch_make(new_string, original_string))

\* json.dumps / json.load of a record: the file holds the text, not the object.
json_dumps(obj) == <<"json", obj>>

json_loads(text) == text[2]

\* A directory: the function from the names of its files to their text.
exists(dir, path) == path \in DOMAIN dir

WriteFile(dir, path, text) == (path :> text) @@ dir

\* uuid.uuid4() and datetime.now(): a fresh id per draw, a clock that ticks
\* with every call.
uuid4(n) == <<"uuid", n>>

None == <<"None">>

TOOL_NAME == "BioDesign tool"

BioDesignOperation(operation_code, operation_details, change, timestamp, tool) ==
    [operationCode |-> operation_code, operationDetails |-> operation_details,
     change |-> change, timestamp |-> timestamp, tool |-> tool]

\* create_metadata without the call of calculate_checksum on the design.
create_metadata_no_checksum(parent_metadata_id, design_name, author, description, design, id, now) ==
    [id |-> id, parentMetadataId |-> parent_metadata_id, designName |-> design_name,
     designChecksum |-> sha256(<<>>), author |-> author, description |-> description,
     lastUpdated |-> now, changelog |-> <<>>]

\* The record create_metadata builds, writes and returns.
create_metadata(parent_metadata_id, design_name, author, description, design, id, now) ==
    [id |-> id, parentMetadataId |-> parent_metadata_id, designName |-> design_name,
     designChecksum |-> calculate_checksum(design), author |-> author,
     description |-> description, lastUpdated |-> now, changelog |-> <<>>]

\* update_metadata_with_operation that keeps the checksum it read.
update_metadata_stale_checksum(metadata, design, operation_code, operation_details, change, now) ==
    [metadata EXCEPT
        !.lastUpdated = now,
        !.changelog = Append(@, BioDesignOperation(operation_code, operation_details,
                                                    change, now, TOOL_NAME))]

\* update_metadata_with_operation that rebuilds the record without its
\* description.
update_metadata_rebuilt(metadata, design, operation_code, operation_details, change, now) ==
    [metadata EXCEPT
        !.description = "",
        !.lastUpdated = now,
        !.designChecksum = calculate_checksum(design),
        !.changelog = Append(@, BioDesignOperation(operation_code, operation_details,
                                                    change, now, TOOL_NAME))]

\* update_metadata_with_operation that skips an entry equal to the last one.
update_metadata_deduplicating(metadata, design, operation_code, operation_details, change, now) ==
    IF /\ metadata.changelog # <<>>
       /\ metadata.changelog[Len(metadata.changelog)].operationCode = operation_code
       /\ metadata.changelog[Len(metadata.changelog)].change = change
    THEN [metadata EXCEPT !.lastUpdated = now,
                          !.designChecksum = calculate_checksum(design)]
    ELSE [metadata EXCEPT
            !.lastUpdated = now,
            !.designChecksum = calculate_checksum(design),
            !.changelog = Append(@, BioDesignOperation(operation_code, operation_details,
                                                        change, now, TOOL_NAME))]

\* The record update_metadata_with_operation builds from the one it read.
update_metadata_with_operation(metadata, design, operation_code, operation_details, change, now) ==
    [metadata EXCEPT
        !.lastUpdated = now,
        !.designChecksum = calculate_checksum(design),
        !.changelog = Append(@, BioDesignOperation(operation_code, operation_details,
                                                    change, now, TOOL_NAME))]

Reverse(s) == [i \in 1..Len(s) |-> s[Len(s) - i + 1]]

RECURSIVE revisions_loop(_, _, _)
revisions_loop(changelog, last_design, current_revision) ==
    IF changelog = <<>> THEN <<>>
    ELSE LET op  == Head(changelog)
             rev == [revision |-> current_revision, design |-> last_design,
                     operationCode |-> op.operationCode,
                     operationDetails |-> op.operationDetails,
                     change |-> op.change, timestamp |-> op.timestamp,
                     tool |-> op.tool]
             next_design == IF op.change # <<>>
                            THEN patch_apply(patch_fromText(op.change), last_design)[1]
                            ELSE last_design
         IN  <<rev>> \o revisions_loop(Tail(changelog), next_design, current_revision - 1)

\* compute_revisions that walks the changelog oldest entry first.
compute_revisions_unreversed(last_design, changelog) ==
    revisions_loop(changelog, last_design, Len(changelog))

\* compute_revisions(last_design, changelog): newest entry first, each patch
\* undone on the way to the next older revision.
compute_revisions(last_design, changelog) ==
    revisions_loop(Reverse(changelog), last_design, Len(changelog))

\* ------------------------------------------------------------ encryption
\* AES-CBC under the pre-shared key with PKCS7 padding, the IV in front,
\* base64 around both.  The ciphertext names the key, the IV and the padded
\* plaintext it was made from; decrypting under another key fails.
ENCRYPTION_KEY == "key"

pkcs7_pad(data) == <<"pkcs7", data>>

aes_cbc_encrypt(key, iv, padded) == <<"aes-cbc", key, iv, padded>>

b64encode(iv, encrypted) == <<"b64", iv, encrypted>>

\* encrypt_string with a constant in the place of os.urandom(16).
encrypt_string_under_fixed_iv(key, string_to_encrypt, iv) ==
    b64encode(0, aes_cbc_encrypt(key, 0, pkcs7_pad(string_to_encrypt)))

encrypt_string_under(key, string_to_encrypt, iv) ==
    b64encode(iv, aes_cbc_encrypt(key, iv, pkcs7_pad(string_to_encrypt)))

encrypt_string(string_to_encrypt, iv) ==
    encrypt_string_under(ENCRYPTION_KEY, string_to_encrypt, iv)

\* Whether decrypt_string returns (the token is base64 of an IV and of a
\* ciphertext made under the configured key with that IV).
decrypts_under(key, token) ==
    /\ token[1] = "b64"
    /\ token[3][2] = key
    /\ token[3][3] = token[2]

decrypts(token) == decrypts_under(ENCRYPTION_KEY, token)

\* decrypt_string that returns the decrypted data with its padding on.
decrypt_string_padded(token) == token[3][4]

decrypt_string(token) == token[3][4][2]

\* ------------------------------------------------- GenBank files (Biopython)
\* A SeqRecord: the LOCUS name, the sequence, the features' labels.
SeqRecord(name, seq, features) == [name |-> name, seq |-> seq, features |-> features]

NoRecord == SeqRecord(None, <<>>, <<>>)

UpperChar(c) ==
    CASE c = "a" -> "A"
      [] c = "t" -> "T"
      [] c = "g" -> "G"
      [] c = "c" -> "C"
      [] OTHER -> c

upper(s) == [i \in 1..Len(s) |-> UpperChar(s[i])]

record_lower(record) == [record EXCEPT !.seq = lower(@)]

\* SeqIO.write(record, handle, "genbank"): the sequence is written in lower
\* case.  SeqIO.read gives it back in upper case.
SeqIO_write(record) == <<"genbank", record_lower(record)>>

SeqIO_read(text) == [text[2] EXCEPT !.seq = upper(@)]

\* get_string_from_record: the GenBank text, letter by letter.
get_string_from_record(record) ==
    <<"LOCUS">> \o record.name \o <<ToString(Len(record.seq)), "FEATURES">>
    \o record.features \o <<"ORIGIN">> \o lower(record.seq) \o <<"//">>

\* Python's s[i:j] with negative indices counted from the end.
PyIndex(i, n) == IF i < 0 THEN Max(0, n + i) ELSE Min(i, n)

PySlice(s, i, j) == SubSeq(s, PyIndex(i, Len(s)) + 1, PyIndex(j, Len(s)))

\* ------------------------------------------------------ IOperation helpers
\* The directories and the random sources an operation works on.
World(design, metadata, expDesign, expMetadata, id, iv) ==
    [designFiles |-> design, metadataFiles |-> metadata,
     exportedDesigns |-> expDesign, exportedMetadata |-> expMetadata,
     nextId |-> id, nextIv |-> iv]

\* SeqIO.read(library/<name>.gb).lower()
read_record(w, name) == record_lower(SeqIO_read(w.designFiles[name]))

lib_create_metadata(w, parent_metadata_id, design_name, author, description, design, now) ==
    [w EXCEPT
       !.metadataFiles = WriteFile(@, design_name, json_dumps(
            create_metadata(parent_metadata_id, design_name, author, description,
                            design, uuid4(w.nextId), now))),
       !.nextId = @ + 1]

lib_update_metadata(w, metadata_path, design, operation_code, operation_details, change, now) ==
    [w EXCEPT
       !.metadataFiles = WriteFile(@, metadata_path, json_dumps(
            update_metadata_with_operation(json_loads(@[metadata_path]), design,
                                           operation_code, operation_details,
                                           change, now)))]

\* open_sequence_and_create_metadata_if_needed: the directories afterwards
\* (the record it returns is read_record, or None when the file is missing).
open_sequence_and_create_metadata_if_needed(w, sequence_name, metadata_parent_id, now) ==
    IF ~exists(w.designFiles, sequence_name) THEN w
    ELSE IF ~exists(w.metadataFiles, sequence_name)
         THEN lib_create_metadata(w, metadata_parent_id, sequence_name, "John Smith",
                                  <<>>, read_record(w, sequence_name).seq, now)
         ELSE w

opened_record(w, sequence_name) ==
    IF exists(w.designFiles, sequence_name) THEN read_record(w, sequence_name)
    ELSE NoRecord

\* A diff taken from the original text to the modified one.
calculate_diff_forward(original_record, modified_record) ==
    compute_difference(get_string_from_record(modified_record),
                       get_string_from_record(original_record))

\* calculate_diff: the difference of the two records' GenBank texts.
calculate_diff(original_record, modified_record) ==
    compute_difference(get_string_from_record(original_record),
                       get_string_from_record(modified_record))

\* save_new_record: the lower-cased record, written to library/<name>.gb.
new_record_of(old_record, new_seq) ==
    record_lower(SeqRecord(old_record.name, new_seq, old_record.features))

save_new_record(w, file_name, old_record, new_seq) ==
    [w EXCEPT !.designFiles =
        WriteFile(@, file_name, SeqIO_write(new_record_of(old_record, new_seq)))]

\* An execute that appends no entry when apply_operation returned no record.
execute_update_skipping_unchanged(w, metadata_path, record, new_record, operation_name, operation_details, now) ==
    IF new_record = NoRecord THEN w
    ELSE lib_update_metadata(w, metadata_path, new_record.seq,
                             operation_name, operation_details,
                             IF record # NoRecord THEN calculate_diff(record, new_record)
                             ELSE <<>>,
                             now)

\* IOperation.execute from the diff on (lines 116-145): the change is
\* computed only when there is a record before and a record after; the
\* checksum is of the new record's sequence, or of the old one's.
execute_update(w, metadata_path, record, new_record, operation_name, operation_details, now) ==
    lib_update_metadata(w, metadata_path,
        IF new_record # NoRecord THEN new_record.seq ELSE record.seq,
        operation_name, operation_details,
        IF record # NoRecord /\ new_record # NoRecord
        THEN calculate_diff(record, new_record) ELSE <<>>,
        now)

\* ------------------------------------------------------------------ state
VARIABLES
    metadataFiles,  \* library/metadata_<name>.json: name -> text
    contents,       \* per name, the designs handed to the library: D0, D1, ...
    clock,          \* datetime.now()
    nextId,         \* the next uuid4 draw
    reply,          \* the last call, its arguments and what it returned or raised
    pure,           \* the inputs and results of the pure functions under check
    callers,        \* concurrent callers of update_metadata_with_operation
    designFiles,    \* library/<name>.gb: name -> text
    exportedDesigns,    \* exported/<name>.gb
    exportedMetadata,   \* exported/metadata_<name>.txt
    state,          \* LatticeDesignTool.state
    nextIv          \* the next os.urandom(16) draw

toolVars == <<designFiles, exportedDesigns, exportedMetadata, state, nextIv>>

vars == <<metadataFiles, contents, clock, nextId, reply, pure, callers, toolVars>>

\* --------------------------------- the library driven as basic_sample.py does
LibNames == {<<"my-design">>, <<"other">>}

SampleDesigns ==
    { <<"A", "T", "G", "C">>, <<"a", "t", "g", "c">>,
      <<"A", "T", "G", "C", "T", "G", "A">>, <<"G", "C", "T", "G", "A">> }

OperationCodes == {"APPEND_OPERATION", "DELETE_OPERATION"}

SampleDetails(operation_code, design) ==
    IF operation_code = "APPEND_OPERATION"
    THEN [sequence_appeneded |-> Slice(design, Len(design) - 3, Len(design))]
    ELSE [start_index |-> 0, end_index |-> 2]

NoReply == [call |-> "none", status |-> "none"]

NoPure == [stage |-> "none"]

\* LatticeDesignTool.__init__: no current file, an empty clipboard.
NewState ==
    [current_file_name |-> None,
     clipboard |-> [text |-> None, copied_from |-> None],
     current_metadata_id |-> None]

\* No tool session, empty library and export directories.
NoTool ==
    /\ designFiles = <<>>
    /\ exportedDesigns = <<>>
    /\ exportedMetadata = <<>>
    /\ state = NewState
    /\ nextIv = 0

InitLib ==
    /\ metadataFiles = <<>>
    /\ contents = <<>>
    /\ clock = 0
    /\ nextId = 0
    /\ reply = NoReply
    /\ pure = NoPure
    /\ callers = <<>>
    /\ NoTool

\* metadata = biodesign_metadata.create_metadata(None, name, author, description, design)
CreateMetadata(name, design) ==
    /\ clock < MaxCalls
    /\ LET metadata == create_metadata(None, name, "John Smith", "This is my design",
                                       design, uuid4(nextId), clock)
       IN  /\ metadataFiles' = WriteFile(metadataFiles, name, json_dumps(metadata))
           /\ reply' = [call |-> "create_metadata", status |-> "ok", name |-> name,
                        design |-> design, result |-> metadata]
    /\ contents' = WriteFile(contents, name, <<design>>)
    /\ clock' = clock + 1
    /\ nextId' = nextId + 1
    /\ UNCHANGED <<pure, callers, toolVars>>

\* The change a caller hands over: the difference of the design before and
\* after its edit ("before_after"), or basic_sample.py's, which assigns
\* my_sequence = new_sequence first and then diffs the two ("basic_sample").
CallerChange(how, before, after) ==
    IF how = "before_after" THEN compute_difference(before, after)
    ELSE compute_difference(after, after)

\* biodesign_metadata.update_metadata_with_operation(metadata_path, design, ...)
UpdateMetadata(name, design, operation_code, how) ==
    /\ clock < MaxCalls
    /\ exists(metadataFiles, name)
    /\ LET change   == CallerChange(how, contents[name][Len(contents[name])], design)
           details  == SampleDetails(operation_code, design)
           metadata == update_metadata_with_operation(
                           json_loads(metadataFiles[name]), design, operation_code,
                           details, change, clock)
       IN  /\ metadataFiles' = WriteFile(metadataFiles, name, json_dumps(metadata))
           /\ reply' = [call |-> "update_metadata_with_operation", status |-> "ok",
                        name |-> name, design |-> design, operation_code |-> operation_code,
                        operation_details |-> details, change |-> change,
                        how |-> how, result |-> metadata]
    /\ contents' = [contents EXCEPT ![name] = Append(@, design)]
    /\ clock' = clock + 1
    /\ UNCHANGED <<nextId, pure, callers, toolVars>>

\* open(metadata_path, "r") of a record that was never created.
UpdateMissing(name, design, operation_code) ==
    /\ clock < MaxCalls
    /\ ~exists(metadataFiles, name)
    /\ reply' = [call |-> "update_metadata_with_operation",
                 status |-> "FileNotFoundError", name |-> name,
                 design |-> design, operation_code |-> operation_code]
    /\ clock' = clock + 1
    /\ UNCHANGED <<metadataFiles, contents, nextId, pure, callers, toolVars>>

NextLib ==
    \/ \E name \in LibNames, design \in SampleDesigns : CreateMetadata(name, design)
    \/ \E name \in LibNames, design \in SampleDesigns, code \in OperationCodes,
          how \in {"before_after", "basic_sample"} :
            UpdateMetadata(name, design, code, how)
    \/ \E name \in LibNames, design \in SampleDesigns, code \in OperationCodes :
            UpdateMissing(name, design, code)

SpecLib == InitLib /\ [][NextLib]_vars

\* ------------------------------------------------- claims on the library
StoredMetadata(name) == json_loads(metadataFiles[name])

LastContent(name) == contents[name][Len(contents[name])]

IsPrefix(s, t) == Len(s) <= Len(t) /\ SubSeq(t, 1, Len(s)) = s

\* C1: after create_metadata and after every update_metadata_with_operation,
\* the stored record's designChecksum is calculate_checksum of the design
\* handed to that most recent call (and the call returns that record).
C1_ChecksumOfLastContent ==
    /\ \A name \in DOMAIN metadataFiles :
          StoredMetadata(name).designChecksum = calculate_checksum(LastContent(name))
    /\ reply.status = "ok" =>
          /\ StoredMetadata(reply.name) = reply.result
          /\ reply.result.designChecksum = sha256(lower(reply.design))

C1_Witness ==
    /\ reply.call = "update_metadata_with_operation"
    /\ reply.status = "ok"
    /\ Len(contents[reply.name]) = 3
    /\ lower(contents[reply.name][2]) # lower(reply.design)
    /\ StoredMetadata(reply.name).designChecksum = sha256(lower(reply.design))

\* C2: the changelog is append-only.  A successful update makes the stored
\* changelog exactly one entry longer, the new entry last and carrying the
\* given operationCode, operationDetails and change; and no step of the
\* library removes or reorders an entry of a stored changelog.
C2_ChangelogAppendOnly ==
    [][ /\ (reply'.call = "update_metadata_with_operation" /\ reply'.status = "ok"
            /\ clock' = clock + 1) =>
              json_loads(metadataFiles'[reply'.name]).changelog
                = Append(StoredMetadata(reply'.name).changelog,
                         BioDesignOperation(reply'.operation_code,
                                            reply'.operation_details,
                                            reply'.change, clock, TOOL_NAME))
        /\ \A name \in DOMAIN metadataFiles :
              /\ name \in DOMAIN metadataFiles'
              /\ IsPrefix(StoredMetadata(name).changelog,
                          json_loads(metadataFiles'[name]).changelog) ]_vars

\* The part of C2 that is about update_metadata_with_operation alone.
C2_UpdateAppendsOne ==
    [][ (reply'.call = "update_metadata_with_operation" /\ reply'.status = "ok"
         /\ clock' = clock + 1) =>
              json_loads(metadataFiles'[reply'.name]).changelog
                = Append(StoredMetadata(reply'.name).changelog,
                         BioDesignOperation(reply'.operation_code,
                                            reply'.operation_details,
                                            reply'.change, clock, TOOL_NAME)) ]_vars

\* Every stored patch is the difference of the designs before and after.
PatchesOfHistory(name) ==
    \A i \in 1..Len(StoredMetadata(name).changelog) :
       StoredMetadata(name).changelog[i].change
         = patch_toText(patch_make(contents[name][i + 1], contents[name][i]))

\* C3: for a record built by n updates with designs D0, D1, ..., Dn, each
\* patch being compute_difference(D(i-1), Di), compute_revisions(Dn,
\* changelog) lists for every i in 1..n a revision numbered i whose design
\* is Di.
C3_ReconstructionOfContent ==
    \A name \in DOMAIN metadataFiles :
       LET changelog == StoredMetadata(name).changelog
           n         == Len(changelog)
           revisions == compute_revisions(LastContent(name), changelog)
       IN  PatchesOfHistory(name) =>
              \A i \in 1..n :
                 \E k \in 1..Len(revisions) :
                    /\ revisions[k].revision = i
                    /\ revisions[k].design = contents[name][i + 1]

C3_Witness ==
    \E name \in DOMAIN metadataFiles :
       /\ Len(StoredMetadata(name).changelog) = 2
       /\ PatchesOfHistory(name)
       /\ contents[name] = << <<"A", "T", "G", "C">>,
                              <<"A", "T", "G", "C", "T", "G", "A">>,
                              <<"G", "C", "T", "G", "A">> >>
       /\ compute_revisions(LastContent(name), StoredMetadata(name).changelog)[2].design
            = <<"A", "T", "G", "C", "T", "G", "A">>

\* C4: compute_revisions returns one revision per changelog entry, newest
\* first, numbered n, n-1, ..., 1; revision k carries the operationCode,
\* operationDetails, change, timestamp and tool of the k-th entry; an empty
\* changelog gives the empty list.
C4_RevisionsNewestFirst ==
    \A name \in DOMAIN metadataFiles :
       LET changelog == StoredMetadata(name).changelog
           n         == Len(changelog)
           revisions == compute_revisions(LastContent(name), changelog)
       IN  /\ Len(revisions) = n
           /\ \A j \in 1..n :
                 LET k == n - j + 1
                 IN  /\ revisions[j].revision = k
                     /\ revisions[j].operationCode = changelog[k].operationCode
                     /\ revisions[j].operationDetails = changelog[k].operationDetails
                     /\ revisions[j].change = changelog[k].change
                     /\ revisions[j].timestamp = changelog[k].timestamp
                     /\ revisions[j].tool = changelog[k].tool

C4_Witness ==
    \E name \in DOMAIN metadataFiles :
       LET changelog == StoredMetadata(name).changelog
           revisions == compute_revisions(LastContent(name), changelog)
       IN  /\ Len(changelog) = 2
           /\ changelog[1].operationCode # changelog[2].operationCode
           /\ revisions[1].revision = 2
           /\ revisions[1].operationCode = changelog[2].operationCode

\* ----------------------------------------- the pure functions on their own
\* Inputs drawn from every pair of texts up to MaxLen letters; the steps
\* are compute_revisions' own: compute_difference, then patch_fromText and
\* patch_apply on the second argument.
InitPure ==
    /\ metadataFiles = <<>>
    /\ contents = <<>>
    /\ clock = 0
    /\ nextId = 0
    /\ reply = NoReply
    /\ callers = <<>>
    /\ NoTool
    /\ \E a \in TextsUpTo(MaxLen), b \in TextsUpTo(MaxLen) :
          pure = [stage |-> "input", a |-> a, b |-> b]

ComputeDifference ==
    /\ pure.stage = "input"
    /\ pure' = [stage |-> "diffed", a |-> pure.a, b |-> pure.b,
                patch |-> compute_difference(pure.a, pure.b)]
    /\ UNCHANGED <<metadataFiles, contents, clock, nextId, reply, callers, toolVars>>

ApplyPatch ==
    /\ pure.stage = "diffed"
    /\ pure' = [stage |-> "applied", a |-> pure.a, b |-> pure.b, patch |-> pure.patch,
                applied |-> IF pure.patch # <<>>
                            THEN patch_apply(patch_fromText(pure.patch), pure.b)[1]
                            ELSE pure.b]
    /\ UNCHANGED <<metadataFiles, contents, clock, nextId, reply, callers, toolVars>>

\* calculate_checksum on both texts, and on the first in lower case.
Checksum ==
    /\ pure.stage = "input"
    /\ pure' = [stage |-> "checksummed", a |-> pure.a, b |-> pure.b,
                checksum_a |-> calculate_checksum(pure.a),
                checksum_lower_a |-> calculate_checksum(lower(pure.a)),
                checksum_b |-> calculate_checksum(pure.b)]
    /\ UNCHANGED <<metadataFiles, contents, clock, nextId, reply, callers, toolVars>>

NextPure == ComputeDifference \/ ApplyPatch \/ Checksum

SpecPure == InitPure /\ [][NextPure]_vars

\* C5: applying the patch of compute_difference(A, B) to B gives exactly A:
\* the patch turns the second argument into the first (new into old).
C5_PatchRoundTrip ==
    pure.stage = "applied" => pure.applied = pure.a

C5_Witness ==
    /\ pure.stage = "applied"
    /\ pure.a = <<"a", "t", "A">>
    /\ pure.b = <<"t", "a">>
    /\ pure.patch # <<>>
    /\ pure.applied = <<"a", "t", "A">>

\* ------------------------- two callers of update_metadata_with_operation
\* The call is a read of the whole record (lines 138-140), the new record
\* built from what was read (141-151), open(path, "w"), which truncates the
\* file (152), and the write that is flushed when the file is closed (153).
\* Nothing orders the steps of two callers.
Callers == {"caller1", "caller2"}

RaceName == <<"my-design">>

RaceBase == create_metadata(None, RaceName, "John Smith", "This is my design",
                            <<"A", "T", "G", "C">>, uuid4(0), 0)

EmptyFile == <<"empty">>

TornFile == <<"torn">>

Readable(text) == text[1] = "json"

InitRace ==
    /\ metadataFiles = (RaceName :> json_dumps(RaceBase))
    /\ contents = (RaceName :> << <<"A", "T", "G", "C">> >>)
    /\ clock = 1
    /\ nextId = 1
    /\ reply = NoReply
    /\ pure = NoPure
    /\ callers = [c \in Callers |-> [pc |-> "idle"]]
    /\ NoTool

\* The record a caller writes is built from the record it read.
metadata_at_write_reread(loaded, stored) == stored

metadata_at_write(loaded, stored) == loaded

\* with open(metadata_path, "r") as f: metadata_json = json.load(f)
RaceRead(c, design, operation_code) ==
    /\ callers[c].pc = "idle"
    /\ callers' = [callers EXCEPT ![c] =
          IF Readable(metadataFiles[RaceName])
          THEN [pc |-> "loaded", metadata |-> json_loads(metadataFiles[RaceName]),
                design |-> design, operation_code |-> operation_code,
                operation_details |-> SampleDetails(operation_code, design),
                change |-> compute_difference(<<"A", "T", "G", "C">>, design),
                readAt |-> clock]
          ELSE [pc |-> "JSONDecodeError", readAt |-> clock]]
    /\ clock' = clock + 1
    /\ UNCHANGED <<metadataFiles, contents, nextId, reply, pure, toolVars>>

\* with open(metadata_path, "w") as f: the file is truncated.
RaceOpenForWrite(c) ==
    /\ callers[c].pc = "loaded"
    /\ callers' = [callers EXCEPT ![c] =
          [@ EXCEPT !.pc = "writing",
                    !.metadata = metadata_at_write(
                                    @, IF Readable(metadataFiles[RaceName])
                                       THEN json_loads(metadataFiles[RaceName])
                                       ELSE @)]
          @@ [openedAt |-> clock]]
    /\ metadataFiles' = WriteFile(metadataFiles, RaceName, EmptyFile)
    /\ clock' = clock + 1
    /\ UNCHANGED <<contents, nextId, reply, pure, toolVars>>

\* f.write(json_string), flushed at the end of the with block: the bytes go
\* to offset 0.  On a file another caller filled in the meantime they
\* either cover it or leave its tail behind, as the two lengths decide.
RaceFlush(c, torn) ==
    /\ callers[c].pc = "writing"
    /\ LET me   == callers[c]
           text == json_dumps(update_metadata_with_operation(
                                 me.metadata, me.design, me.operation_code,
                                 me.operation_details, me.change, me.readAt))
       IN  metadataFiles' = WriteFile(metadataFiles, RaceName,
              IF metadataFiles[RaceName] = EmptyFile \/ ~torn THEN text ELSE TornFile)
    /\ callers' = [callers EXCEPT ![c] = [@ EXCEPT !.pc = "done"] @@ [closedAt |-> clock]]
    /\ clock' = clock + 1
    /\ UNCHANGED <<contents, nextId, reply, pure, toolVars>>

NextRace ==
    \/ \E c \in Callers, design \in SampleDesigns, code \in OperationCodes :
          RaceRead(c, design, code)
    \/ \E c \in Callers : RaceOpenForWrite(c)
    \/ \E c \in Callers, torn \in BOOLEAN : RaceFlush(c, torn)

SpecRace == InitRace /\ [][NextRace]_vars

\* C6: when the second caller's read happens before the first caller's
\* write, and the second caller writes after the first, the record finally
\* stored holds the changelog that was there before plus the second caller's
\* entry only; the first caller's entry is lost and neither caller has
\* received an error.
C6_LostUpdate ==
    \A first \in Callers, second \in Callers :
       ( /\ first # second
         /\ callers[first].pc = "done"
         /\ callers[second].pc = "done"
         /\ callers[second].readAt < callers[first].openedAt
         /\ callers[first].closedAt < callers[second].openedAt )
       => /\ Readable(metadataFiles[RaceName])
          /\ StoredMetadata(RaceName).changelog
               = Append(RaceBase.changelog,
                        BioDesignOperation(callers[second].operation_code,
                                           callers[second].operation_details,
                                           callers[second].change,
                                           callers[second].readAt, TOOL_NAME))
          /\ StoredMetadata(RaceName).designChecksum
               = sha256(lower(callers[second].design))
          /\ \A c \in Callers : callers[c].pc # "JSONDecodeError"

C6_Witness ==
    /\ callers["caller1"].pc = "done"
    /\ callers["caller2"].pc = "done"
    /\ callers["caller2"].readAt < callers["caller1"].openedAt
    /\ callers["caller1"].closedAt < callers["caller2"].openedAt
    /\ callers["caller1"].operation_code = "APPEND_OPERATION"
    /\ callers["caller2"].operation_code = "DELETE_OPERATION"
    /\ Len(StoredMetadata(RaceName).changelog) = 1
    /\ StoredMetadata(RaceName).changelog[1].operationCode = "DELETE_OPERATION"


\* ------------------------------------------------------- the design tool
\* What a command leaves behind: the directories, the session state, and
\* how the command ended ("ok", "rejected" for the printed no-current-file
\* error, or the exception raised to the caller).
Outcome(w, st, status, message) ==
    [w |-> w, state |-> st, status |-> status, message |-> message]

\* IOperation.execute lines 147-153: the current metadata id is read back
\* from the record; post_execute and the success message follow.
executed(w, st) ==
    Outcome(w, [st EXCEPT !.current_metadata_id =
                   json_loads(w.metadataFiles[st.current_file_name]).id],
            "ok", "executed successfully")

\* Python values of the command arguments that are not sequences.
PyStr(s) == <<"str", s>>

PyBool(b) == <<"bool", b>>

bool(x) ==
    IF x = None THEN FALSE
    ELSE IF x[1] = "str" THEN x[2] # "" ELSE x[2] = "True"

\* CreateOperation.apply_operation: the GenBank file is written, then the
\* metadata record is created unless one is there.
created_record(file_name, sequence) ==
    record_lower(SeqIO_read(SeqIO_write(record_lower(SeqRecord(file_name, sequence, <<>>)))))

CreateOperation_apply(w, file_name, sequence, metadata_parent_id, now) ==
    open_sequence_and_create_metadata_if_needed(
        [w EXCEPT !.designFiles =
            WriteFile(@, file_name,
                      SeqIO_write(record_lower(SeqRecord(file_name, sequence, <<>>))))],
        file_name, metadata_parent_id, now)

\* CreateOperation().execute({"current_file_name": file_name})
CreateOperation_execute(w, file_name, sequence, source, metadata_parent_id, now) ==
    execute_update(CreateOperation_apply(w, file_name, sequence, metadata_parent_id, now),
                   file_name, opened_record(w, file_name),
                   created_record(file_name, sequence), "CREATE",
                   [file_name |-> file_name, source |-> source], now)

\* CreateOperation.validate_and_set_args: the message of the ValueError it
\* raises, or "" when the arguments pass.
CreateOperation_validate(w, file_name, sequence) ==
    IF file_name = <<>> \/ sequence = <<>>
    THEN "CREATE operation requires a file_name and a sequence argument"
    ELSE IF exists(w.designFiles, file_name)
         THEN "A file with the name already exists"
         ELSE ""

\* execute_operation("CREATE", file_name=..., sequence=...)
CREATE(w, st, file_name, sequence, now) ==
    IF CreateOperation_validate(w, file_name, sequence) # ""
    THEN Outcome(w, st, "ValueError", CreateOperation_validate(w, file_name, sequence))
    ELSE executed(CreateOperation_execute(w, file_name, sequence, "command_line", <<>>, now),
                  [st EXCEPT !.current_file_name = file_name])

\* execute_operation("OPEN", file_name=...)
OpenOperation_execute(w, file_name, now) ==
    execute_update(open_sequence_and_create_metadata_if_needed(w, file_name, <<>>, now),
                   file_name, read_record(w, file_name), read_record(w, file_name),
                   "OPEN", [file_name |-> file_name], now)

OPEN(w, st, file_name, now) ==
    IF file_name = <<>>
    THEN Outcome(w, st, "ValueError", "OPEN operation requires a file_name")
    ELSE IF ~exists(w.designFiles, file_name)
         THEN Outcome(w, st, "ValueError", "A file with the name doesn't exist")
         ELSE executed(OpenOperation_execute(w, file_name, now),
                       [st EXCEPT !.current_file_name = file_name])

\* LatticeDesignTool.requires_current_file
operations_requiring_file ==
    {"INSERT", "DELETE", "APPEND", "CODON_OPTIMIZATION",
     "ADD_ANNOTATION", "SPLIT", "PASTE", "COPY", "EXPORT",
     "EXTRACT_BACKBONE", "EXPORT_PROTEIN", "REDESIGN_INTERFACE",
     "DESIGN_PROTEIN", "CALCULATE_PROTEIN_METRICS", "TRANSLATE_PROTEIN"}

\* The printed rejection of execute_operation lines 137-140.
rejected(w, st) ==
    Outcome(w, st, "rejected", "operation requires a current file to be set")

\* InsertOperation.apply_operation on the opened record, and the rest of
\* execute.
InsertOperation_modified_seq(original_seq, insert_position, insert_sequence) ==
    PySlice(original_seq, 0, insert_position) \o insert_sequence
    \o PySlice(original_seq, insert_position, Len(original_seq))

InsertOperation_opened(w, st, record, insert_position, insert_sequence, now) ==
    IF insert_position >= Len(record.seq)
    THEN Outcome(w, st, "ValueError",
                 "The insert_position argument must be less than the length of the sequence")
    ELSE executed(
           execute_update(
             save_new_record(w, st.current_file_name, record,
                 InsertOperation_modified_seq(record.seq, insert_position, insert_sequence)),
             st.current_file_name, record,
             new_record_of(record,
                 InsertOperation_modified_seq(record.seq, insert_position, insert_sequence)),
             "INSERT",
             [insert_position |-> insert_position, insert_sequence |-> insert_sequence],
             now),
           st)

\* execute_operation("INSERT", insert_position=..., insert_sequence=...); of
\* the two arguments it is the sequence that a command may leave out.
INSERT(w, st, insert_position, insert_sequence, now) ==
    IF st.current_file_name = None THEN rejected(w, st)
    ELSE IF insert_sequence = None
    THEN Outcome(w, st, "ValueError",
                 "INSERT operation requires both an insert_position and an insert_sequence")
    ELSE InsertOperation_opened(
           open_sequence_and_create_metadata_if_needed(w, st.current_file_name, <<>>, now),
           st, read_record(w, st.current_file_name),
           insert_position, insert_sequence, now)


\* The rest of IOperation.execute after an apply_operation that saved a
\* modified sequence: the changelog entry, then the current metadata id.
edited(w, st, record, modified_seq, operation_name, operation_details, now) ==
    executed(
      execute_update(save_new_record(w, st.current_file_name, record, modified_seq),
                     st.current_file_name, record, new_record_of(record, modified_seq),
                     operation_name, operation_details, now),
      st)

\* DeleteOperation.apply_operation on the opened record: the two checks,
\* then original_seq[:start] + original_seq[end:].
DeleteOperation_modified_seq(original_seq, delete_start_position, delete_end_position) ==
    PySlice(original_seq, 0, delete_start_position)
    \o PySlice(original_seq, delete_end_position, Len(original_seq))

DeleteOperation_opened(w, st, record, delete_start_position, delete_end_position, now) ==
    IF delete_start_position >= Len(record.seq)
    THEN Outcome(w, st, "ValueError",
                 "The delete_start_position argument must be less than the length of the sequence")
    ELSE IF delete_end_position >= Len(record.seq)
    THEN Outcome(w, st, "ValueError",
                 "The delete_end_position argument must be less than the length of the sequence")
    ELSE edited(w, st, record,
                DeleteOperation_modified_seq(record.seq, delete_start_position,
                                             delete_end_position),
                "DELETE",
                [delete_start_position |-> delete_start_position,
                 delete_end_position |-> delete_end_position],
                now)

\* execute_operation("DELETE", delete_start_position=..., delete_end_position=...)
DELETE(w, st, delete_start_position, delete_end_position, now) ==
    IF st.current_file_name = None THEN rejected(w, st)
    ELSE DeleteOperation_opened(
           open_sequence_and_create_metadata_if_needed(w, st.current_file_name, <<>>, now),
           st, read_record(w, st.current_file_name),
           delete_start_position, delete_end_position, now)

\* execute_operation("APPEND", insert_sequence=...)
APPEND(w, st, insert_sequence, now) ==
    IF st.current_file_name = None THEN rejected(w, st)
    ELSE IF insert_sequence = None
    THEN Outcome(w, st, "ValueError", "APPEND operation requires an insert_sequence argument")
    ELSE edited(open_sequence_and_create_metadata_if_needed(w, st.current_file_name, <<>>, now),
                st, read_record(w, st.current_file_name),
                read_record(w, st.current_file_name).seq \o insert_sequence,
                "APPEND", [insert_sequence |-> insert_sequence], now)

\* execute_operation("COPY", copy_start_index=..., copy_end_index=...):
\* apply_operation fills the clipboard and returns no record, so the COPY
\* entry carries an empty change.
COPY(w, st, copy_start_index, copy_end_index, now) ==
    IF st.current_file_name = None THEN rejected(w, st)
    ELSE executed(
           execute_update(
             open_sequence_and_create_metadata_if_needed(w, st.current_file_name, <<>>, now),
             st.current_file_name, read_record(w, st.current_file_name), NoRecord,
             "COPY",
             [copy_start_index |-> copy_start_index, copy_end_index |-> copy_end_index],
             now),
           [st EXCEPT !.clipboard =
              [text |-> PySlice(read_record(w, st.current_file_name).seq,
                                copy_start_index, copy_end_index),
               copied_from |-> st.current_metadata_id]])

\* PasteOperation.apply_operation on the opened record; pasted_text is the
\* one-element tuple that line 100 builds.
PasteOperation_opened(w, st, record, paste_position, now) ==
    IF paste_position >= Len(record.seq)
    THEN Outcome(w, st, "ValueError",
                 "The paste_position argument must be less than the length of the sequence")
    ELSE IF st.clipboard.text = None
    THEN Outcome(w, st, "ValueError", "There is no text in the clipboard to paste")
    ELSE edited(w, st, record,
                PySlice(record.seq, 0, paste_position) \o st.clipboard.text
                \o PySlice(record.seq, paste_position, Len(record.seq)),
                "PASTE",
                [paste_position |-> paste_position,
                 pasted_text |-> <<st.clipboard.text>>,
                 copied_from |-> st.clipboard.copied_from],
                now)

\* execute_operation("PASTE", paste_position=...)
PASTE(w, st, paste_position, now) ==
    IF st.current_file_name = None THEN rejected(w, st)
    ELSE PasteOperation_opened(
           open_sequence_and_create_metadata_if_needed(w, st.current_file_name, <<>>, now),
           st, read_record(w, st.current_file_name), paste_position, now)

\* execute_operation of a name that is none of the operations: the message
\* is printed and the call returns.
UNSUPPORTED(w, st) ==
    Outcome(w, st, "unsupported", "Operation not supported")

\* post_execute that writes the metadata to exported/ as it is in the library.
ExportOperation_post_execute_plain(w, current_file_name, include_metadata) ==
    IF include_metadata
    THEN [w EXCEPT
            !.exportedDesigns = WriteFile(@, current_file_name, w.designFiles[current_file_name]),
            !.exportedMetadata = WriteFile(@, current_file_name,
                                           w.metadataFiles[current_file_name])]
    ELSE [w EXCEPT
            !.exportedDesigns = WriteFile(@, current_file_name, w.designFiles[current_file_name])]

\* ExportOperation.post_execute: the design file is copied to exported/,
\* and with include_metadata the record is encrypted under a fresh IV.
ExportOperation_post_execute(w, current_file_name, include_metadata) ==
    IF include_metadata
    THEN [w EXCEPT
            !.exportedDesigns = WriteFile(@, current_file_name, w.designFiles[current_file_name]),
            !.exportedMetadata = WriteFile(@, current_file_name,
                 encrypt_string(w.metadataFiles[current_file_name], w.nextIv)),
            !.nextIv = @ + 1]
    ELSE [w EXCEPT
            !.exportedDesigns = WriteFile(@, current_file_name, w.designFiles[current_file_name])]

\* An export that copies and encrypts before the EXPORT entry is appended.
ExportOperation_execute_export_first(w, current_file_name, include_metadata, now) ==
    execute_update(
        ExportOperation_post_execute(
            open_sequence_and_create_metadata_if_needed(w, current_file_name, <<>>, now),
            current_file_name, include_metadata),
        current_file_name, read_record(w, current_file_name), NoRecord,
        "EXPORT", [include_metadata |-> include_metadata], now)

\* ExportOperation().execute(state): the EXPORT entry is appended before
\* post_execute copies and encrypts.
ExportOperation_execute(w, current_file_name, include_metadata, now) ==
    ExportOperation_post_execute(
        execute_update(
            open_sequence_and_create_metadata_if_needed(w, current_file_name, <<>>, now),
            current_file_name, read_record(w, current_file_name), NoRecord,
            "EXPORT", [include_metadata |-> include_metadata], now),
        current_file_name, include_metadata)

\* An EXPORT whose arguments are validated before the current file is asked for.
EXPORT_validating_first(w, st, include_metadata, now) ==
    IF include_metadata = None
    THEN Outcome(w, st, "ValueError", "EXPORT operation requires an include_metadata argument")
    ELSE IF st.current_file_name = None THEN rejected(w, st)
    ELSE executed(ExportOperation_execute(w, st.current_file_name, bool(include_metadata), now),
                  st)

\* execute_operation("EXPORT", include_metadata=...)
EXPORT(w, st, include_metadata, now) ==
    IF st.current_file_name = None THEN rejected(w, st)
    ELSE IF include_metadata = None
    THEN Outcome(w, st, "ValueError", "EXPORT operation requires an include_metadata argument")
    ELSE executed(ExportOperation_execute(w, st.current_file_name, bool(include_metadata), now),
                  st)

\* An import that stores the decrypted record without comparing checksums.
ImportOperation_copied_unchecked(w, st, record, design_path, metadata_path, now) ==
    IF ~decrypts(w.exportedMetadata[metadata_path])
    THEN Outcome(w, st, "ValueError", "Invalid padding bytes.")
    ELSE executed(
           execute_update(
             [w EXCEPT !.metadataFiles =
                 WriteFile(@, st.current_file_name,
                           decrypt_string(w.exportedMetadata[metadata_path]))],
             st.current_file_name, record, NoRecord, "IMPORT",
             [design_path |-> design_path, metadata_path |-> metadata_path,
              source |-> "from_file"],
             now),
           st)

\* ImportOperation.pre_execute after the copy (lines 115-135), then the
\* rest of execute; w holds the copied design, record is read from it.
ImportOperation_copied(w, st, record, design_path, metadata_path, now) ==
    IF ~decrypts(w.exportedMetadata[metadata_path])
    THEN Outcome(w, st, "ValueError", "Invalid padding bytes.")
    ELSE IF json_loads(decrypt_string(w.exportedMetadata[metadata_path])).designChecksum
            # calculate_checksum(record.seq)
    THEN Outcome(w, st, "ValueError", "Checksums of metadata and design don't match")
    ELSE executed(
           execute_update(
             [w EXCEPT !.metadataFiles =
                 WriteFile(@, st.current_file_name,
                           decrypt_string(w.exportedMetadata[metadata_path]))],
             st.current_file_name, record, NoRecord, "IMPORT",
             [design_path |-> design_path, metadata_path |-> metadata_path,
              source |-> "from_file"],
             now),
           st)

\* shutil.copyfile(design_path, library/<current_file_name>.gb)
ImportOperation_copy(w, design_path) ==
    [w EXCEPT !.designFiles = WriteFile(@, design_path, w.exportedDesigns[design_path])]

\* execute_operation("IMPORT", design_path=..., metadata_path=...): the
\* paths are exported/<design_path>.gb and exported/metadata_<metadata_path>.txt.
IMPORT(w, st, design_path, metadata_path, now) ==
    IF ~exists(w.exportedDesigns, design_path)
    THEN Outcome(w, st, "ValueError", "The design file doesn't exist")
    ELSE IF ~exists(w.exportedMetadata, metadata_path)
    THEN Outcome(w, st, "ValueError", "The metadata file doesn't exist")
    ELSE ImportOperation_copied(
           ImportOperation_copy(w, design_path),
           [st EXCEPT !.current_file_name = design_path],
           record_lower(SeqIO_read(w.exportedDesigns[design_path])),
           design_path, metadata_path, now)


\* A list argument, list.sort() and list.index(x) (0-based, first match).
PyList(l) == <<"list", l>>

RECURSIVE sorted(_)
sorted(l) ==
    IF Len(l) <= 1 THEN l
    ELSE LET m == CHOOSE i \in 1..Len(l) : \A j \in 1..Len(l) : l[i] <= l[j]
         IN  <<l[m]>> \o sorted(SubSeq(l, 1, m - 1) \o SubSeq(l, m + 1, Len(l)))

index(l, x) == (CHOOSE i \in 1..Len(l) : l[i] = x /\ \A j \in 1..(i - 1) : l[j] # x) - 1

\* f"{current_file_name}_{index}"
PartName(current_file_name, i) == current_file_name \o <<"_", ToString(i)>>

\* One round of the loop of SplitOperation.apply_operation after the
\* part's CREATE arguments passed (lines 142-151): the part is created,
\* exported, and post_execute runs once more.
SplitOperation_part(w, split_part_file_name, split_seq, metadata_parent_id, now) ==
    ExportOperation_post_execute(
        ExportOperation_execute(
            CreateOperation_execute(w, split_part_file_name, split_seq,
                                    "tool_split_operation", metadata_parent_id, now),
            split_part_file_name, TRUE, now),
        split_part_file_name, TRUE)

\* The loop over split_indices (with the length appended) from its k-th
\* element on: the directories afterwards, and the message of the
\* ValueError a part's CREATE raised, or "".
RECURSIVE SplitOperation_loop(_, _, _, _, _, _, _, _)
SplitOperation_loop(w, current_file_name, original_seq, split_indices, k, start, metadata_parent_id, now) ==
    IF k > Len(split_indices) THEN [w |-> w, message |-> ""]
    ELSE IF CreateOperation_validate(w,
                PartName(current_file_name, index(split_indices, split_indices[k])),
                PySlice(original_seq, start, split_indices[k])) # ""
    THEN [w |-> w,
          message |-> CreateOperation_validate(w,
                PartName(current_file_name, index(split_indices, split_indices[k])),
                PySlice(original_seq, start, split_indices[k]))]
    ELSE SplitOperation_loop(
            SplitOperation_part(w,
                PartName(current_file_name, index(split_indices, split_indices[k])),
                PySlice(original_seq, start, split_indices[k]),
                metadata_parent_id, now),
            current_file_name, original_seq, split_indices, k + 1, split_indices[k],
            metadata_parent_id, now)

\* The end of SPLIT: an exception out of the loop leaves what the loop did,
\* otherwise the SPLIT entry is appended to the current design's record.
SplitOperation_looped(looped, st, record, split_indices, now) ==
    IF looped.message # ""
    THEN Outcome(looped.w, st, "ValueError", looped.message)
    ELSE executed(execute_update(looped.w, st.current_file_name, record, NoRecord,
                                 "SPLIT", [split_indices |-> split_indices], now),
                  st)

\* SplitOperation.apply_operation on the opened record, split_indices sorted.
SplitOperation_opened(w, st, record, split_indices, now) ==
    IF split_indices = <<>>
    THEN Outcome(w, st, "IndexError", "list index out of range")
    ELSE IF split_indices[Len(split_indices)] >= Len(record.seq)
    THEN Outcome(w, st, "ValueError",
                 "The split indices argument must be less than the length of the sequence")
    ELSE SplitOperation_looped(
           SplitOperation_loop(w, st.current_file_name, record.seq,
               Append(split_indices, Len(record.seq)), 1, 0,
               json_loads(w.metadataFiles[st.current_file_name]).id, now),
           st, record, split_indices, now)

\* execute_operation("SPLIT", split_indices=...)
SPLIT(w, st, split_indices, now) ==
    IF st.current_file_name = None THEN rejected(w, st)
    ELSE IF split_indices = None
    THEN Outcome(w, st, "ValueError", "SPLIT operation requires an split_indices argument")
    ELSE SplitOperation_opened(
           open_sequence_and_create_metadata_if_needed(w, st.current_file_name, <<>>, now),
           st, read_record(w, st.current_file_name), sorted(split_indices[2]), now)


\* ------------------------------------ a session of main-biodesign.py
ToolNames == {<<"x">>, <<"y">>}

ToolSequences == {<<>>, <<"a", "t">>, <<"A", "t", "a">>}

InsertPositions == (-1)..MaxIndex

InsertSequences == {None, <<"t">>}

SplitLists ==
    {None, PyList(<<>>)}
    \cup {PyList(<<i>>) : i \in 0..MaxIndex}
    \cup {PyList(<<i, j>>) : i, j \in 0..MaxIndex}

ExportArgs == {None, PyBool("True"), PyBool("False"), PyStr("False")}

ToolWorld ==
    World(designFiles, metadataFiles, exportedDesigns, exportedMetadata, nextId, nextIv)

\* cad = LatticeDesignTool() in an empty working directory.
InitTool ==
    /\ metadataFiles = <<>>
    /\ contents = <<>>
    /\ clock = 0
    /\ nextId = 0
    /\ reply = NoReply
    /\ pure = NoPure
    /\ callers = <<>>
    /\ NoTool

\* One command of the loop: execute_operation runs, a ValueError is caught
\* and printed, the directories and the session are as the command left them.
Commit(op, args, out) ==
    /\ designFiles' = out.w.designFiles
    /\ metadataFiles' = out.w.metadataFiles
    /\ exportedDesigns' = out.w.exportedDesigns
    /\ exportedMetadata' = out.w.exportedMetadata
    /\ nextId' = out.w.nextId
    /\ nextIv' = out.w.nextIv
    /\ state' = out.state
    /\ reply' = [call |-> op, args |-> args, status |-> out.status, message |-> out.message]
    /\ clock' = clock + 1
    /\ UNCHANGED <<contents, pure, callers>>

ToolCommand(op, args, out) ==
    /\ clock < MaxCommands
    /\ Commit(op, args, out)

Create ==
    \E file_name \in ToolNames, sequence \in ToolSequences :
        \E out \in {CREATE(ToolWorld, state, file_name, sequence, clock)} :
            ToolCommand("CREATE", <<file_name, sequence>>, out)

Open ==
    \E file_name \in ToolNames \cup DOMAIN designFiles :
        \E out \in {OPEN(ToolWorld, state, file_name, clock)} :
            ToolCommand("OPEN", <<file_name>>, out)

Insert ==
    \E insert_position \in InsertPositions, insert_sequence \in InsertSequences :
        \E out \in {INSERT(ToolWorld, state, insert_position, insert_sequence, clock)} :
            ToolCommand("INSERT", <<PyList(<<insert_position>>), insert_sequence>>, out)

Split ==
    \E split_indices \in SplitLists :
        \E out \in {SPLIT(ToolWorld, state, split_indices, clock)} :
            ToolCommand("SPLIT", <<split_indices>>, out)

Export ==
    \E include_metadata \in ExportArgs :
        \E out \in {EXPORT(ToolWorld, state, include_metadata, clock)} :
            ToolCommand("EXPORT", <<include_metadata>>, out)

Import ==
    \E design_path \in ToolNames \cup DOMAIN exportedDesigns,
       metadata_path \in ToolNames \cup DOMAIN exportedMetadata :
        \E out \in {IMPORT(ToolWorld, state, design_path, metadata_path, clock)} :
            ToolCommand("IMPORT", <<design_path, metadata_path>>, out)

Delete ==
    \E delete_start_position \in InsertPositions, delete_end_position \in InsertPositions :
        \E out \in {DELETE(ToolWorld, state, delete_start_position, delete_end_position, clock)} :
            ToolCommand("DELETE", <<PyList(<<delete_start_position, delete_end_position>>)>>, out)

AppendCommand ==
    \E insert_sequence \in InsertSequences :
        \E out \in {APPEND(ToolWorld, state, insert_sequence, clock)} :
            ToolCommand("APPEND", <<insert_sequence>>, out)

Copy ==
    \E copy_start_index \in InsertPositions, copy_end_index \in InsertPositions :
        \E out \in {COPY(ToolWorld, state, copy_start_index, copy_end_index, clock)} :
            ToolCommand("COPY", <<PyList(<<copy_start_index, copy_end_index>>)>>, out)

Paste ==
    \E paste_position \in InsertPositions :
        \E out \in {PASTE(ToolWorld, state, paste_position, clock)} :
            ToolCommand("PASTE", <<PyList(<<paste_position>>)>>, out)

\* A command whose name is none of the operations.
Unsupported ==
    \E out \in {UNSUPPORTED(ToolWorld, state)} :
        ToolCommand("UNSUPPORTED", <<>>, out)

\* The "close" command of the loop.
Close ==
    /\ clock < MaxCommands
    /\ state' = NewState
    /\ reply' = [call |-> "close", args |-> <<>>, status |-> "ok", message |-> "closed"]
    /\ clock' = clock + 1
    /\ UNCHANGED <<metadataFiles, contents, nextId, pure, callers,
                   designFiles, exportedDesigns, exportedMetadata, nextIv>>

NextTool ==
    \/ Create \/ Open \/ Insert \/ Delete \/ AppendCommand \/ Copy \/ Paste
    \/ Split \/ Export \/ Import \/ Close \/ Unsupported

SpecTool == InitTool /\ [][NextTool]_vars


\* A validation error: a ValueError raised for the arguments or for an
\* index, as opposed to the integrity errors of IMPORT.
IntegrityMessages ==
    {"Checksums of metadata and design don't match", "Invalid padding bytes."}

ValidationError(r) == r.status = "ValueError" /\ r.message \notin IntegrityMessages

\* C8: a tool command that fails with a validation error has created or
\* changed no design file and no metadata record, in the library or in the
\* export directory, a failure inside SPLIT included.
C8_ValidationFailsBeforeMutation ==
    [][(clock' = clock + 1 /\ ValidationError(reply'))
        => UNCHANGED <<designFiles, metadataFiles, exportedDesigns, exportedMetadata>>]_vars


\* ------------------------------------------------ the synthesis provider
\* A match decided on the design's name instead of its checksum.
design_and_metadata_match_by_name(w, design_file, metadata_file) ==
    json_loads(decrypt_string(w.exportedMetadata[metadata_file])).designName
    = SeqIO_read(w.exportedDesigns[design_file]).name

\* LatticeSynthesisProviderTool.design_and_metadata_match on two files of
\* exported/ that exist, the token one that decrypts.
design_and_metadata_match(w, design_file, metadata_file) ==
    json_loads(decrypt_string(w.exportedMetadata[metadata_file])).designChecksum
    = calculate_checksum(SeqIO_read(w.exportedDesigns[design_file]).seq)

\* LatticeSynthesisProviderTool.compute_revisions
provider_compute_revisions(metadata_json, record) ==
    [id |-> metadata_json.id,
     parentMetadataId |-> metadata_json.parentMetadataId,
     designName |-> metadata_json.designName,
     author |-> metadata_json.author,
     description |-> metadata_json.description,
     lastUpdated |-> metadata_json.lastUpdated,
     revisions |-> compute_revisions(get_string_from_record(record),
                                     metadata_json.changelog)]

\* What a request gets back: the HTTP status (500 for an exception that
\* leaves the handler), the error flag and message of the body, and for a
\* revision history the body itself.
Response(status, error, message, body) ==
    [status |-> status, error |-> error, message |-> message, body |-> body]

NoBody == [revisions |-> <<>>]

\* The part the two endpoints share: the arguments, then the match.
\* "" when the request goes on to its success reply.
refused(w, design_file, metadata_file) ==
    IF design_file = None \/ metadata_file = None
    THEN Response("400", TRUE, "Both design file and metadata file are required.", NoBody)
    ELSE IF ~exists(w.exportedMetadata, metadata_file) \/ ~exists(w.exportedDesigns, design_file)
    THEN Response("500", TRUE, "FileNotFoundError", NoBody)
    ELSE IF ~decrypts(w.exportedMetadata[metadata_file])
    THEN Response("500", TRUE, "ValueError: Invalid padding bytes.", NoBody)
    ELSE IF ~design_and_metadata_match(w, design_file, metadata_file)
    THEN Response("200", TRUE,
                  "Design file and metadata file do not match. Please upload matching files.",
                  NoBody)
    ELSE Response("200", FALSE, "", NoBody)

\* POST /order
place_order(w, design_file, metadata_file) ==
    IF refused(w, design_file, metadata_file).error
    THEN refused(w, design_file, metadata_file)
    ELSE Response("200", FALSE, "Order placed successfully.", NoBody)

\* POST /revisions
get_revisions(w, design_file, metadata_file) ==
    IF refused(w, design_file, metadata_file).error
    THEN refused(w, design_file, metadata_file)
    ELSE Response("200", FALSE, "",
            provider_compute_revisions(
                json_loads(decrypt_string(w.exportedMetadata[metadata_file])),
                SeqIO_read(w.exportedDesigns[design_file])))


\* ------------------------- the import and order boundary: files received
\* Sessions of the tool elsewhere, whose exported files arrive in
\* exported/: a design created and exported, or created, edited and exported.
EmptyWorld(id, iv) == World(<<>>, <<>>, <<>>, <<>>, id, iv)

Created(file_name, sequence, id) ==
    CREATE(EmptyWorld(id, id), NewState, file_name, sequence, 0)

SessionExported(file_name, sequence, id) ==
    EXPORT(Created(file_name, sequence, id).w, Created(file_name, sequence, id).state,
           PyBool("True"), 1).w

SessionEdited(file_name, sequence, id) ==
    INSERT(Created(file_name, sequence, id).w, Created(file_name, sequence, id).state,
           0, <<"t">>, 1)

SessionEditedExported(file_name, sequence, id) ==
    EXPORT(SessionEdited(file_name, sequence, id).w, SessionEdited(file_name, sequence, id).state,
           PyBool("True"), 2).w

\* A token made under a key that is not the configured one.
ForeignToken(token) == encrypt_string_under("other-key", decrypt_string(token), token[2])

ReceivedDesigns(file_name) ==
    { SessionExported(file_name, <<"a", "t">>, 10).exportedDesigns[file_name],
      SessionEditedExported(file_name, <<"a", "t">>, 20).exportedDesigns[file_name] }

ReceivedTokens(file_name) ==
    { SessionExported(file_name, <<"a", "t">>, 10).exportedMetadata[file_name],
      SessionEditedExported(file_name, <<"a", "t">>, 20).exportedMetadata[file_name],
      ForeignToken(SessionExported(file_name, <<"a", "t">>, 10).exportedMetadata[file_name]) }

\* The directories of the receiving side: exported/ holds the files
\* received for x and possibly for y; the library is empty, or holds a
\* design y of its own, open in the session.
BoundaryWorlds ==
    { [w |-> [own.w EXCEPT
                !.exportedDesigns = (<<"x">> :> design) @@ other.exportedDesigns,
                !.exportedMetadata = (<<"x">> :> token) @@ other.exportedMetadata],
       state |-> own.state] :
        design \in ReceivedDesigns(<<"x">>),
        token \in ReceivedTokens(<<"x">>),
        other \in {EmptyWorld(0, 0), SessionExported(<<"y">>, <<"a", "t">>, 30)},
        own \in {Outcome(EmptyWorld(0, 0), NewState, "ok", ""),
                 Created(<<"y">>, <<"t", "a">>, 0)} }

InitBoundary ==
    /\ contents = <<>>
    /\ clock = 0
    /\ reply = NoReply
    /\ pure = NoPure
    /\ callers = <<>>
    /\ \E b \in BoundaryWorlds :
        /\ designFiles = b.w.designFiles
        /\ metadataFiles = b.w.metadataFiles
        /\ exportedDesigns = b.w.exportedDesigns
        /\ exportedMetadata = b.w.exportedMetadata
        /\ nextId = b.w.nextId
        /\ nextIv = b.w.nextIv
        /\ state = b.state

ReceivedNames == {<<"x">>, <<"y">>}

\* IMPORT typed into the tool.
BoundaryImport ==
    \E design_path \in ReceivedNames, metadata_path \in ReceivedNames :
        \E out \in {IMPORT(ToolWorld, state, design_path, metadata_path, clock)} :
            /\ clock < MaxRequests
            /\ Commit("IMPORT", <<design_path, metadata_path>>, out)

\* A request to the provider's server: nothing but the reply changes.
Request(call, args, response) ==
    /\ clock < MaxRequests
    /\ reply' = [call |-> call, args |-> args, status |-> response.status,
                 error |-> response.error, message |-> response.message,
                 body |-> response.body]
    /\ clock' = clock + 1
    /\ UNCHANGED <<metadataFiles, contents, nextId, pure, callers, toolVars>>

PlaceOrder ==
    \E design_file \in ReceivedNames \cup {None}, metadata_file \in ReceivedNames \cup {None} :
        \E response \in {place_order(ToolWorld, design_file, metadata_file)} :
            Request("order", <<design_file, metadata_file>>, response)

GetRevisions ==
    \E design_file \in ReceivedNames \cup {None}, metadata_file \in ReceivedNames \cup {None} :
        \E response \in {get_revisions(ToolWorld, design_file, metadata_file)} :
            Request("revisions", <<design_file, metadata_file>>, response)

NextBoundary == BoundaryImport \/ PlaceOrder \/ GetRevisions

SpecBoundary == InitBoundary /\ [][NextBoundary]_vars


\* ---------------------------------------------- claims at the boundary
\* The checksum a token carries and the checksum of a design file's
\* content, for files of exported/.
ChecksumInToken(metadata_file) ==
    json_loads(decrypt_string(exportedMetadata[metadata_file])).designChecksum

ChecksumOfDesign(design_file) == sha256(lower(exportedDesigns[design_file][2].seq))

\* A pair of received files that can be compared, and whose checksums differ.
Comparable(design_file, metadata_file) ==
    /\ design_file \in DOMAIN exportedDesigns
    /\ metadata_file \in DOMAIN exportedMetadata
    /\ decrypts(exportedMetadata[metadata_file])

Mismatched(design_file, metadata_file) ==
    /\ Comparable(design_file, metadata_file)
    /\ ChecksumInToken(metadata_file) # ChecksumOfDesign(design_file)

\* C7: design_and_metadata_match is true only for a pair whose token
\* carries the checksum of the design's content, and a success reply of
\* /order or /revisions is never given for a pair whose checksums differ.
C7_MismatchRejected ==
    /\ \A design_file \in DOMAIN exportedDesigns, metadata_file \in DOMAIN exportedMetadata :
          (/\ decrypts(exportedMetadata[metadata_file])
           /\ design_and_metadata_match(ToolWorld, design_file, metadata_file))
          => ChecksumInToken(metadata_file) = ChecksumOfDesign(design_file)
    /\ (reply.call \in {"order", "revisions"} /\ reply.status = "200" /\ ~reply.error)
          => (/\ Comparable(reply.args[1], reply.args[2])
              /\ ~Mismatched(reply.args[1], reply.args[2]))

\* /revisions has refused a pair whose checksums differ.
C7_Witness ==
    /\ reply.call = "revisions"
    /\ Mismatched(reply.args[1], reply.args[2])
    /\ reply.status = "200"
    /\ reply.error

\* C9 as stated: a checksum mismatch found by IMPORT or by /order comes
\* back as a negative result, never as a raised exception.
C9_MismatchIsNegativeResult ==
    (reply.call \in {"IMPORT", "order"} /\ Mismatched(reply.args[1], reply.args[2]))
        => reply.status \notin {"ValueError", "500"}

\* C9, amended: /order and /revisions answer a checksum mismatch with a
\* normal reply (status 200, error true, a message); IMPORT raises
\* ValueError with the message "Checksums of metadata and design don't match".
C9_MismatchResultOrValueError ==
    /\ (reply.call \in {"order", "revisions"} /\ Mismatched(reply.args[1], reply.args[2]))
          => (/\ reply.status = "200"
              /\ reply.error
              /\ reply.message =
                   "Design file and metadata file do not match. Please upload matching files.")
    /\ (reply.call = "IMPORT" /\ Mismatched(reply.args[1], reply.args[2]))
          => (/\ reply.status = "ValueError"
              /\ reply.message = "Checksums of metadata and design don't match")

\* IMPORT has met a pair whose checksums differ.
C9_Witness ==
    /\ reply.call = "IMPORT"
    /\ Mismatched(reply.args[1], reply.args[2])
    /\ reply.status = "ValueError"

\* C10: an IMPORT of a pair whose checksums differ stores neither the
\* design nor the metadata in the library, leaves the library's record of
\* that name as it was, and leaves the session's current design unchanged.
C10_MismatchedImportStoresNothing ==
    [][(/\ clock' = clock + 1
        /\ reply'.call = "IMPORT"
        /\ Mismatched(reply'.args[1], reply'.args[2]))
        => (/\ UNCHANGED <<designFiles, metadataFiles>>
            /\ state'.current_file_name = state.current_file_name)]_vars


\* C18: calculate_checksum(C) equals calculate_checksum(lowercase(C)), and
\* two contents that differ only in letter case have the same checksum.
C18_ChecksumCaseInsensitive ==
    pure.stage = "checksummed" =>
        /\ pure.checksum_a = pure.checksum_lower_a
        /\ lower(pure.a) = lower(pure.b) => pure.checksum_a = pure.checksum_b

C18_Witness ==
    /\ pure.stage = "checksummed"
    /\ pure.a = <<"A", "t", "a">>
    /\ pure.b = <<"a", "t", "A">>
    /\ pure.checksum_a = pure.checksum_b

\* --------------------------------- encrypt_string and decrypt_string alone
\* The plaintext and the key of the environment are drawn; encrypt_string is
\* called up to MaxTokens times on the plaintext, each call with its own
\* os.urandom(16) draw, and every token is handed to decrypt_string.
CryptoKeys == {ENCRYPTION_KEY, "other-key"}

InitCrypto ==
    /\ metadataFiles = <<>>
    /\ contents = <<>>
    /\ clock = 0
    /\ nextId = 0
    /\ reply = NoReply
    /\ callers = <<>>
    /\ NoTool
    /\ \E s \in TextsUpTo(MaxLen), key \in CryptoKeys :
          pure = [stage |-> "crypto", s |-> s, key |-> key,
                  tokens |-> <<>>, decrypted |-> <<>>]

Encrypt ==
    /\ pure.stage = "crypto"
    /\ Len(pure.tokens) < MaxTokens
    /\ pure' = [pure EXCEPT !.tokens =
                   Append(@, encrypt_string_under(pure.key, pure.s, nextIv))]
    /\ nextIv' = nextIv + 1
    /\ UNCHANGED <<metadataFiles, contents, clock, nextId, reply, callers,
                   designFiles, exportedDesigns, exportedMetadata, state>>

Decrypt ==
    /\ pure.stage = "crypto"
    /\ Len(pure.decrypted) < Len(pure.tokens)
    /\ pure' = [pure EXCEPT !.decrypted =
                   Append(@, IF decrypts_under(pure.key, pure.tokens[Len(pure.decrypted) + 1])
                             THEN decrypt_string(pure.tokens[Len(pure.decrypted) + 1])
                             ELSE <<"ValueError", "Invalid padding bytes.">>)]
    /\ UNCHANGED <<metadataFiles, contents, clock, nextId, reply, callers, toolVars>>

NextCrypto == Encrypt \/ Decrypt

SpecCrypto == InitCrypto /\ [][NextCrypto]_vars

C12_FreshIvPerToken ==
    (pure.stage = "crypto" /\ Len(pure.tokens) >= 2) =>
        /\ pure.tokens[1] # pure.tokens[2]
        /\ pure.tokens[1][2] # pure.tokens[2][2]
        /\ \A k \in 1..2 :
              /\ decrypts_under(pure.key, pure.tokens[k])
              /\ decrypt_string(pure.tokens[k]) = pure.s

C12_Witness ==
    /\ pure.stage = "crypto"
    /\ Len(pure.tokens) = 2
    /\ Len(pure.decrypted) = 2
    /\ pure.tokens[1] # pure.tokens[2]
    /\ pure.decrypted = <<pure.s, pure.s>>


\* ------------------------------------------ further claims on the library
\* C13: create_metadata returns and stores under the design name a record
\* whose id differs from the id of every record created before, whose
\* designChecksum is the checksum of the initial content, with the given
\* parent id, name, author and description and an empty changelog.
C13_CreateFreshRecord ==
    [][(clock' = clock + 1 /\ reply'.call = "create_metadata") =>
        /\ json_loads(metadataFiles'[reply'.name]) = reply'.result
        /\ reply'.result.id \notin {uuid4(k) : k \in 0..(nextId - 1)}
        /\ \A name \in DOMAIN metadataFiles :
              json_loads(metadataFiles[name]).id # reply'.result.id
        /\ reply'.result.designChecksum = sha256(lower(reply'.design))
        /\ reply'.result.parentMetadataId = None
        /\ reply'.result.designName = reply'.name
        /\ reply'.result.author = "John Smith"
        /\ reply'.result.description = "This is my design"
        /\ reply'.result.changelog = <<>>]_vars

\* A second record has been created, after a first one under another name.
C13_Witness ==
    /\ reply.call = "create_metadata"
    /\ DOMAIN metadataFiles = LibNames
    /\ StoredMetadata(reply.name) = reply.result
    /\ \A name \in LibNames \ {reply.name} :
          StoredMetadata(name).id # reply.result.id

\* C14: a create for a name whose record exists fails and leaves the stored
\* record as it was; an update of a record that does not exist fails and
\* creates no record.
C14_CreateExistingFails ==
    [][/\ (/\ clock' = clock + 1
           /\ reply'.call = "create_metadata"
           /\ exists(metadataFiles, reply'.name))
          => (/\ reply'.status # "ok"
              /\ metadataFiles'[reply'.name] = metadataFiles[reply'.name])
       /\ (/\ clock' = clock + 1
           /\ reply'.call = "update_metadata_with_operation"
           /\ ~exists(metadataFiles, reply'.name))
          => (/\ reply'.status # "ok"
              /\ ~exists(metadataFiles', reply'.name))]_vars

\* C15: update_metadata_with_operation leaves the id, parentMetadataId,
\* designName, author and description of the record as they were.
C15_UpdateFrame ==
    [][(/\ clock' = clock + 1
        /\ reply'.call = "update_metadata_with_operation"
        /\ reply'.status = "ok")
        => (/\ json_loads(metadataFiles'[reply'.name]).id = StoredMetadata(reply'.name).id
            /\ json_loads(metadataFiles'[reply'.name]).parentMetadataId
                  = StoredMetadata(reply'.name).parentMetadataId
            /\ json_loads(metadataFiles'[reply'.name]).designName
                  = StoredMetadata(reply'.name).designName
            /\ json_loads(metadataFiles'[reply'.name]).author
                  = StoredMetadata(reply'.name).author
            /\ json_loads(metadataFiles'[reply'.name]).description
                  = StoredMetadata(reply'.name).description)]_vars

\* A record has been updated twice since its creation.
C15_Witness ==
    /\ reply.call = "update_metadata_with_operation"
    /\ reply.status = "ok"
    /\ Len(StoredMetadata(reply.name).changelog) = 2
    /\ StoredMetadata(reply.name).designName = reply.name
    /\ StoredMetadata(reply.name).description = "This is my design"

\* C17: update_metadata_with_operation called a second time with the same
\* design, operationCode, operationDetails and change is not refused and
\* appends a second entry with those values.
C17_UpdateNotIdempotent ==
    [][(/\ clock' = clock + 1
        /\ reply.call = "update_metadata_with_operation"
        /\ reply.status = "ok"
        /\ reply'.call = "update_metadata_with_operation"
        /\ reply'.name = reply.name
        /\ reply'.design = reply.design
        /\ reply'.operation_code = reply.operation_code
        /\ reply'.operation_details = reply.operation_details
        /\ reply'.change = reply.change)
        => (/\ reply'.status = "ok"
            /\ Len(json_loads(metadataFiles'[reply'.name]).changelog)
                  = Len(StoredMetadata(reply.name).changelog) + 1
            /\ \A field \in {"operationCode", "operationDetails", "change", "tool"} :
                  json_loads(metadataFiles'[reply'.name]).changelog[
                      Len(StoredMetadata(reply.name).changelog) + 1][field]
                  = StoredMetadata(reply.name).changelog[
                      Len(StoredMetadata(reply.name).changelog)][field])]_vars

\* The same update has been made twice in a row.
C17_Witness ==
    /\ reply.call = "update_metadata_with_operation"
    /\ reply.status = "ok"
    /\ Len(StoredMetadata(reply.name).changelog) = 2
    /\ StoredMetadata(reply.name).changelog[1].operationCode
          = StoredMetadata(reply.name).changelog[2].operationCode
    /\ StoredMetadata(reply.name).changelog[1].change
          = StoredMetadata(reply.name).changelog[2].change
    /\ Len(contents[reply.name]) = 3
    /\ contents[reply.name][2] = contents[reply.name][3]

\* C20: for every changelog entry k whose change is empty, compute_revisions
\* applies no patch, so the revisions numbered k and k-1 carry the same design.
C20_EmptyPatchNoOp ==
    \A name \in DOMAIN metadataFiles :
       \A k \in 2..Len(StoredMetadata(name).changelog) :
          StoredMetadata(name).changelog[k].change = <<>> =>
             \E r1, r2 \in 1..Len(StoredMetadata(name).changelog) :
                /\ compute_revisions(LastContent(name), StoredMetadata(name).changelog)[r1].revision = k
                /\ compute_revisions(LastContent(name), StoredMetadata(name).changelog)[r2].revision = k - 1
                /\ compute_revisions(LastContent(name), StoredMetadata(name).changelog)[r1].design
                   = compute_revisions(LastContent(name), StoredMetadata(name).changelog)[r2].design

\* A record whose second entry has an empty change and whose first has not.
C20_Witness ==
    \E name \in DOMAIN metadataFiles :
       /\ Len(StoredMetadata(name).changelog) = 2
       /\ StoredMetadata(name).changelog[1].change # <<>>
       /\ StoredMetadata(name).changelog[2].change = <<>>
       /\ compute_revisions(LastContent(name), StoredMetadata(name).changelog)[1].design
          = compute_revisions(LastContent(name), StoredMetadata(name).changelog)[2].design


\* --------------------------------------------- further claims on the tool
\* C16: once a metadata record exists for a design name, no tool operation
\* changes its id or makes its changelog shorter.
C16_RecordCreatedOnce ==
    [][\A name \in DOMAIN metadataFiles :
          /\ exists(metadataFiles', name)
          /\ json_loads(metadataFiles'[name]).id = json_loads(metadataFiles[name]).id
          /\ Len(json_loads(metadataFiles'[name]).changelog)
                >= Len(json_loads(metadataFiles[name]).changelog)]_vars

EditOperations == {"INSERT", "DELETE", "APPEND", "PASTE"}

\* The GenBank text of library/<name>.gb as IOperation reads it.
TextOf(files, name) == get_string_from_record(record_lower(SeqIO_read(files[name])))

LastEntry(files, name) ==
    json_loads(files[name]).changelog[Len(json_loads(files[name]).changelog)]

\* C21: for every tool operation that produces new content, the change
\* stored in the changelog is compute_difference(content before, content
\* after), so applying it to the content after yields the content before.
C21_ToolChangeIsBackwardPatch ==
    [][(/\ clock' = clock + 1
        /\ reply'.call \in EditOperations
        /\ reply'.status = "ok")
        => (/\ LastEntry(metadataFiles', state.current_file_name).change
                 = compute_difference(TextOf(designFiles, state.current_file_name),
                                      TextOf(designFiles', state.current_file_name))
            /\ (IF LastEntry(metadataFiles', state.current_file_name).change # <<>>
                THEN patch_apply(
                       patch_fromText(LastEntry(metadataFiles', state.current_file_name).change),
                       TextOf(designFiles', state.current_file_name))[1]
                ELSE TextOf(designFiles', state.current_file_name))
               = TextOf(designFiles, state.current_file_name))]_vars

\* A DELETE has shortened the current design and stored a patch that brings
\* the text back to another one.
C21_Witness ==
    /\ reply.call = "DELETE"
    /\ reply.status = "ok"
    /\ LastEntry(metadataFiles, state.current_file_name).change # <<>>
    /\ patch_apply(patch_fromText(LastEntry(metadataFiles, state.current_file_name).change),
                   TextOf(designFiles, state.current_file_name))[1]
          # TextOf(designFiles, state.current_file_name)

\* ------------------------------------------------- the protein operations
\* A PDB text is modelled by its ATOM lines, one per residue: the text is
\* the sequence of residue names and line i is that of residue number i.
\* In this part designFiles holds library/<name>.pdb.
amino_acids ==
    {"A", "R", "N", "D", "C", "E", "Q", "G", "H", "I",
     "L", "K", "M", "F", "P", "S", "T", "W", "Y", "V"}

flexible_residues == {3, 8, 20, 21, 32, 41, 48, 51}

\* The draws of random.choice, one per line of a flexible residue.
random_choices(pdb_content) ==
    [flexible_residues \cap (1..Len(pdb_content)) -> amino_acids]

\* RedesignInterfaceOperation.redesign_interface under the given draws.
redesign_interface(pdb_content, choice) ==
    [res_num \in 1..Len(pdb_content) |->
        IF res_num \in flexible_residues THEN choice[res_num] ELSE pdb_content[res_num]]

open_protein_and_create_metadata_if_needed(w, sequence_name, metadata_parent_id, now) ==
    IF ~exists(w.designFiles, sequence_name) THEN w
    ELSE IF ~exists(w.metadataFiles, sequence_name)
         THEN lib_create_metadata(w, metadata_parent_id, sequence_name, "John Smith",
                                  <<>>, w.designFiles[sequence_name], now)
         ELSE w

\* IOperation.execute, is_protein branch, from the diff on (lines 119-145):
\* record and new_record are PDB texts or None.
execute_update_protein(w, metadata_path, record, new_record, operation_name, operation_details, now) ==
    lib_update_metadata(w, metadata_path,
        IF new_record # None THEN new_record ELSE record,
        operation_name, operation_details,
        IF record # None /\ new_record # None
        THEN compute_difference(record, new_record) ELSE <<>>,
        now)

\* execute_operation("CREATE_PROTEIN", file_name=..., pdb_string=...): the
\* file does not exist when execute opens it, apply_operation writes it and
\* creates the record.
CREATE_PROTEIN(w, st, file_name, pdb_string, now) ==
    IF file_name = <<>> \/ pdb_string = <<>>
    THEN Outcome(w, st, "ValueError",
                 "CREATE_PROTEIN operation requires a file_name and a pdb_string argument")
    ELSE IF exists(w.designFiles, file_name)
    THEN Outcome(w, st, "ValueError", "A file with the name already exists")
    ELSE executed(
           execute_update_protein(
             open_protein_and_create_metadata_if_needed(
                 [w EXCEPT !.designFiles = WriteFile(@, file_name, pdb_string)],
                 file_name, <<>>, now),
             file_name, None, pdb_string, "CREATE_PROTEIN",
             [file_name |-> file_name, source |-> "command_line"], now),
           [st EXCEPT !.current_file_name = file_name])

\* RedesignInterfaceOperation.apply_operation and the rest of execute: the
\* redesigned text is written to library/<name>_backbone.pdb and returned
\* as the new record.
RedesignInterfaceOperation_opened(w, st, record, model, choice, now) ==
    executed(
      execute_update_protein(
        [w EXCEPT !.designFiles =
            WriteFile(@, st.current_file_name \o <<"_backbone">>,
                      redesign_interface(record, choice))],
        st.current_file_name, record, redesign_interface(record, choice),
        "REDESIGN_INTERFACE",
        [model |-> model, mode |-> PyStr("interface"),
         num_designs |-> PyStr("1"), temperature |-> PyStr("0.1")],
        now),
      st)

\* execute_operation("REDESIGN_INTERFACE", model=..., mode=..., ...); of the
\* four required arguments it is the model that a command may leave out.
REDESIGN_INTERFACE(w, st, model, choice, now) ==
    IF st.current_file_name = None THEN rejected(w, st)
    ELSE IF model = None
    THEN Outcome(w, st, "ValueError", "REDESIGN_INTERFACE operation requires a model argument")
    ELSE RedesignInterfaceOperation_opened(
           open_protein_and_create_metadata_if_needed(w, st.current_file_name, <<>>, now),
           st, w.designFiles[st.current_file_name], model, choice, now)

\* A session of main-biodesign.py on protein structures.
ProteinTexts == {<<>>, <<"M", "K">>, <<"M", "K", "G">>}

RedesignModels == {None, PyStr("ProteinMPNN")}

CurrentPdb ==
    IF state.current_file_name # None THEN designFiles[state.current_file_name] ELSE <<>>

CreateProtein ==
    \E file_name \in ToolNames, pdb_string \in ProteinTexts :
        \E out \in {CREATE_PROTEIN(ToolWorld, state, file_name, pdb_string, clock)} :
            ToolCommand("CREATE_PROTEIN", <<file_name, pdb_string>>, out)

RedesignInterface ==
    \E model \in RedesignModels, choice \in random_choices(CurrentPdb) :
        \E out \in {REDESIGN_INTERFACE(ToolWorld, state, model, choice, clock)} :
            ToolCommand("REDESIGN_INTERFACE", <<model>>, out)

NextProtein == CreateProtein \/ RedesignInterface \/ Close

SpecProtein == InitTool /\ [][NextProtein]_vars

\* The design that library/<name>.gb or library/<name>.pdb holds: the
\* record's sequence, or the PDB text.
DesignOf(files, name) ==
    IF files[name][1] = "genbank" THEN record_lower(SeqIO_read(files[name])).seq
    ELSE files[name]

ChangelogOf(files, name) ==
    IF exists(files, name) THEN json_loads(files[name]).changelog ELSE <<>>

\* The operations that save no modified sequence of the current design.
KeepingOperations == {"OPEN", "COPY", "EXPORT", "IMPORT", "SPLIT"}

C24_ExportImportRoundTrip ==
    [][(/\ clock' = clock + 1
        /\ reply.call = "EXPORT"
        /\ reply.status = "ok"
        /\ bool(reply.args[1])
        /\ reply'.call = "IMPORT"
        /\ reply'.args = <<state.current_file_name, state.current_file_name>>)
        => (/\ reply'.status = "ok"
            /\ json_loads(metadataFiles'[state.current_file_name]).id
                 = StoredMetadata(state.current_file_name).id
            /\ json_loads(metadataFiles'[state.current_file_name]).designChecksum
                 = StoredMetadata(state.current_file_name).designChecksum
            /\ json_loads(metadataFiles'[state.current_file_name]).changelog
                 = Append(StoredMetadata(state.current_file_name).changelog,
                          LastEntry(metadataFiles', state.current_file_name))
            /\ LastEntry(metadataFiles', state.current_file_name).operationCode = "IMPORT")]_vars

\* A design was created, exported with its metadata and imported again.
C24_Witness ==
    /\ reply.call = "IMPORT"
    /\ reply.status = "ok"
    /\ reply.args = <<state.current_file_name, state.current_file_name>>
    /\ Len(StoredMetadata(state.current_file_name).changelog) = 3
    /\ StoredMetadata(state.current_file_name).changelog[1].operationCode = "CREATE"
    /\ StoredMetadata(state.current_file_name).changelog[2].operationCode = "EXPORT"
    /\ StoredMetadata(state.current_file_name).changelog[3].operationCode = "IMPORT"
    /\ json_loads(decrypt_string(exportedMetadata[state.current_file_name])).changelog
          = SubSeq(StoredMetadata(state.current_file_name).changelog, 1, 2)

\* C25: with no current design, initially and after close, every operation
\* that requires a current file is rejected before its arguments are
\* validated and nothing changes; a command with an unsupported operation
\* name likewise changes nothing.
C25_NoCurrentDesignRejected ==
    [][/\ (/\ clock' = clock + 1
           /\ state.current_file_name = None
           /\ reply'.call \in operations_requiring_file)
          => (/\ reply'.status = "rejected"
              /\ UNCHANGED <<designFiles, metadataFiles, exportedDesigns,
                             exportedMetadata, state, nextId, nextIv>>)
       /\ (clock' = clock + 1 /\ reply'.call = "UNSUPPORTED")
          => (/\ reply'.status = "unsupported"
              /\ UNCHANGED <<designFiles, metadataFiles, exportedDesigns,
                             exportedMetadata, state, nextId, nextIv>>)]_vars

\* After a design was created and closed, an EXPORT without its argument
\* was rejected for the missing current file.
C25_Witness ==
    /\ reply.call = "EXPORT"
    /\ reply.args = <<None>>
    /\ reply.status = "rejected"
    /\ state = NewState
    /\ DOMAIN designFiles # {}

\* -------------------------------------------- the basic sample's changes
\* C26: in the basic sample workflow the change recorded for each update
\* is the difference between the original and the modified sequence, so
\* applying it to the modified sequence gives the sequence before (the
\* append's change on the sequence with the stop codon gives the initial
\* sequence, and likewise for the deletion).
C26_SampleChangeRestoresOriginal ==
    [][(/\ clock' = clock + 1
        /\ reply'.call = "update_metadata_with_operation"
        /\ reply'.status = "ok"
        /\ reply'.how = "basic_sample")
        => (/\ reply'.change = compute_difference(LastContent(reply'.name), reply'.design)
            /\ (IF reply'.change # <<>>
                THEN patch_apply(patch_fromText(reply'.change), reply'.design)[1]
                ELSE reply'.design)
               = LastContent(reply'.name))]_vars

\* ------------------------------------------ further claims on the tool, 2
\* C27: EXPORT writes encrypted metadata only when include_metadata is
\* true; given include_metadata=False, as command-line text or as a
\* boolean, it exports the design alone.
C27_ExportMetadataOnlyWhenTrue ==
    [][(/\ clock' = clock + 1
        /\ reply'.call = "EXPORT"
        /\ reply'.status = "ok")
        => (/\ exportedDesigns'[state.current_file_name] = designFiles[state.current_file_name]
            /\ reply'.args[1] \in {PyBool("False"), PyStr("False")}
                  => exportedMetadata' = exportedMetadata
            /\ exportedMetadata' # exportedMetadata
                  => reply'.args[1] = PyBool("True"))]_vars

\* The index arguments of a command, and whether one of them is negative,
\* not less than the length n, or the start is greater than the end.
IndexArgs(r) == r.args[1][2]

OutOfBounds(r, n) ==
    \/ \E i \in 1..Len(IndexArgs(r)) : IndexArgs(r)[i] < 0 \/ IndexArgs(r)[i] >= n
    \/ Len(IndexArgs(r)) = 2 /\ IndexArgs(r)[1] > IndexArgs(r)[2]

\* C28: the index arguments of INSERT, DELETE, PASTE and COPY must be
\* within the bounds of the current sequence: a negative index, an index
\* greater than or equal to the length, or a start greater than the end is
\* rejected with a validation error and the sequence is not changed.
C28_IndexOutOfBoundsRejected ==
    [][(/\ clock' = clock + 1
        /\ state.current_file_name # None
        /\ reply'.call \in {"INSERT", "DELETE", "PASTE", "COPY"}
        /\ OutOfBounds(reply', Len(DesignOf(designFiles, state.current_file_name))))
        => (/\ ValidationError(reply')
            /\ designFiles' = designFiles)]_vars

\* The sequences of the parts <name>_0 .. <name>_k in a library directory.
PartSeqs(files, name, k) ==
    [i \in 1..(k + 1) |-> DesignOf(files, PartName(name, i - 1))]

\* C29: SPLIT at k in-bounds indices creates k+1 parts whose sequences
\* concatenated in order equal the original sequence; each part's record
\* has the original record's id as parentMetadataId; the original design
\* file is unchanged.  (Stated for part names not yet in the library.)
C29_SplitPartsPartition ==
    [][(/\ clock' = clock + 1
        /\ state.current_file_name # None
        /\ reply'.call = "SPLIT"
        /\ reply'.args[1] # None
        /\ Len(IndexArgs(reply')) >= 1
        /\ \A i \in 1..Len(IndexArgs(reply')) :
              /\ IndexArgs(reply')[i] >= 0
              /\ IndexArgs(reply')[i] < Len(DesignOf(designFiles, state.current_file_name))
        /\ \A i \in 0..Len(IndexArgs(reply')) :
              ~exists(designFiles, PartName(state.current_file_name, i)))
        => (/\ reply'.status = "ok"
            /\ \A i \in 0..Len(IndexArgs(reply')) :
                  /\ exists(designFiles', PartName(state.current_file_name, i))
                  /\ exists(metadataFiles', PartName(state.current_file_name, i))
                  /\ json_loads(metadataFiles'[PartName(state.current_file_name, i)]).parentMetadataId
                       = json_loads(metadataFiles'[state.current_file_name]).id
            /\ Concat(PartSeqs(designFiles', state.current_file_name, Len(IndexArgs(reply'))))
                 = DesignOf(designFiles, state.current_file_name)
            /\ designFiles'[state.current_file_name] = designFiles[state.current_file_name])]_vars

\* C30: DELETE with 0 <= start <= end < length removes exactly the
\* positions start..end inclusive, so the result is shorter by
\* end - start + 1.
C30_DeleteInclusiveRange ==
    [][(/\ clock' = clock + 1
        /\ state.current_file_name # None
        /\ reply'.call = "DELETE"
        /\ 0 <= IndexArgs(reply')[1]
        /\ IndexArgs(reply')[1] <= IndexArgs(reply')[2]
        /\ IndexArgs(reply')[2] < Len(DesignOf(designFiles, state.current_file_name)))
        => (/\ reply'.status = "ok"
            /\ DesignOf(designFiles', state.current_file_name)
                 = SubSeq(DesignOf(designFiles, state.current_file_name),
                          1, IndexArgs(reply')[1])
                   \o SubSeq(DesignOf(designFiles, state.current_file_name),
                             IndexArgs(reply')[2] + 2,
                             Len(DesignOf(designFiles, state.current_file_name)))
            /\ Len(DesignOf(designFiles', state.current_file_name))
                 = Len(DesignOf(designFiles, state.current_file_name))
                   - (IndexArgs(reply')[2] - IndexArgs(reply')[1] + 1))]_vars

====
